---- MODULE Spec2Model ----
(***************************************************************************)
(* FileReNamer (src/file_renamer/file_renamer.py): bulk renaming of the    *)
(* files of one directory.                                                 *)
(*                                                                         *)
(* A string is a sequence of one-character strings.  The directory is a    *)
(* function from the names it holds to file identities; a path is modelled *)
(* by the name joined with the directory, so names hold no path separator. *)
(***************************************************************************)
EXTENDS Integers, Sequences, FiniteSets

VARIABLES
    fs,        \* the directory: name -> file identity
    files0,    \* the directory at construction (never changes)
    pc,        \* "idle" | "confirm" (blocked in input()) | "exec" (in the loop) | "done"
    err,       \* "none" | "ValueError" (raised by str.index in get_ext/get_suffixed)
    rule,      \* the call in progress
    listing,   \* what self.filenames returned to the call in progress
    plan,      \* files_to_change: sequence of <<old, new>> in insertion order
    shown,     \* whether rename_these printed the plan
    ans,       \* what input() returned ("none": not asked yet)
    idx,       \* position of the for loop of rename_these in the plan
    outcomes,  \* per entry processed: [old, new, res]
    before,    \* the directory when the current plan was built
    amm,       \* replace_these: the ammendments, as a sequence of <<from, to>>
    k,         \* replace_these: position in amm
    made,      \* names created by renames since the current call started
    calls,     \* number of calls made so far
    prev,      \* the call that returned last: [rule, ans, skipped]
    ext        \* number of external changes made to the directory

vars == <<fs, files0, pc, err, rule, listing, plan, shown, ans, idx, outcomes,
          before, amm, k, made, calls, prev, ext>>

(***************************************************************************)
(* Bounds                                                                  *)
(***************************************************************************)
MaxFiles == 2
MaxCalls == 2
MaxExt == 1
MaxRules == 2

(***************************************************************************)
(* Strings                                                                 *)
(***************************************************************************)
Range(s) == {s[i] : i \in DOMAIN s}

\* prefix in str.startswith
StartsWith(s, p) == Len(p) <= Len(s) /\ SubSeq(s, 1, Len(p)) = p

\* suffix in str.endswith
EndsWith(s, p) == Len(p) <= Len(s) /\ SubSeq(s, Len(s) - Len(p) + 1, Len(s)) = p

\* Python's `sub in s`
Contains(s, sub) ==
    \E i \in 0..(Len(s) - Len(sub)) : SubSeq(s, i + 1, i + Len(sub)) = sub

\* mutant: str.replace(old, new, 1)
RECURSIVE str_replace_first(_, _, _)
str_replace_first(s, old, new) ==
    IF old = <<>> THEN new \o s
    ELSE IF Len(s) < Len(old) THEN s
    ELSE IF SubSeq(s, 1, Len(old)) = old
         THEN new \o SubSeq(s, Len(old) + 1, Len(s))
         ELSE <<Head(s)>> \o str_replace_first(Tail(s), old, new)

\* Python's str.replace(old, new): every non-overlapping occurrence, left to
\* right; an empty `old` matches before every character and at the end.
RECURSIVE str_replace(_, _, _)
str_replace(s, old, new) ==
    IF old = <<>>
    THEN IF s = <<>> THEN new
         ELSE new \o <<Head(s)>> \o str_replace(Tail(s), old, new)
    ELSE IF Len(s) < Len(old) THEN s
    ELSE IF SubSeq(s, 1, Len(old)) = old
         THEN new \o str_replace(SubSeq(s, Len(old) + 1, Len(s)), old, new)
         ELSE <<Head(s)>> \o str_replace(Tail(s), old, new)

Digit(d) == CASE d = 0 -> "0" [] d = 1 -> "1" [] d = 2 -> "2" [] d = 3 -> "3"
              [] d = 4 -> "4" [] d = 5 -> "5" [] d = 6 -> "6" [] d = 7 -> "7"
              [] d = 8 -> "8" [] d = 9 -> "9"

\* Python's str(n) of an int
RECURSIVE str_nat(_)
str_nat(n) == IF n < 10 THEN <<Digit(n)>> ELSE str_nat(n \div 10) \o <<Digit(n % 10)>>

str(n) == IF n < 0 THEN <<"-">> \o str_nat(0 - n) ELSE str_nat(n)

\* str.index("."): the position of the first "." (1-based here), 0 when the
\* code raises ValueError
index_dot(fname) ==
    IF \E i \in 1..Len(fname) : fname[i] = "."
    THEN CHOOSE i \in 1..Len(fname) :
             fname[i] = "." /\ \A j \in 1..(i - 1) : fname[j] # "."
    ELSE 0

(***************************************************************************)
(* Quick methods                                                           *)
(***************************************************************************)
\* defined only when index_dot(fname) > 0; the callers test it first
get_ext(fname) == SubSeq(fname, index_dot(fname), Len(fname))

get_suffixed(fname, suffix) ==
    SubSeq(fname, 1, index_dot(fname) - 1) \o suffix \o get_ext(fname)

get_prefixed(fname, prefix) == prefix \o fname

\* os.path.exists(self.join_with_dir(fname)): joining with "", "." or ".."
\* names the directory itself or its parent, which exist
path_exists(d, fname) ==
    fname \in DOMAIN d \/ fname \in {<<>>, <<".">>, <<".", ".">>}

\* the orders os.listdir may return the names in
Listings(d) ==
    LET n == Cardinality(DOMAIN d)
    IN {l \in [1..n -> DOMAIN d] : \A i, j \in 1..n : i # j => l[i] # l[j]}

\* mutant: replace_these reads the listing once and reuses it
filenames_cached == IF pc = "done" /\ k >= 1 THEN {listing} ELSE Listings(fs)

\* self.filenames: read from the directory at every use
filenames == Listings(fs)

(***************************************************************************)
(* The plans (change_list) of the main methods                             *)
(***************************************************************************)
replace_plan(names, change_this, to_this) ==
    LET f[i \in 0..Len(names)] ==
            IF i = 0 THEN <<>>
            ELSE IF Contains(names[i], change_this)
                 THEN Append(f[i - 1],
                             <<names[i], str_replace(names[i], change_this, to_this)>>)
                 ELSE f[i - 1]
    IN f[Len(names)]

\* mutant: the startswith filter is dropped
add_prefix_plan_unfiltered(names, prefix) ==
    [i \in 1..Len(names) |-> <<names[i], prefix \o names[i]>>]

add_prefix_plan(names, prefix) ==
    LET f[i \in 0..Len(names)] ==
            IF i = 0 THEN <<>>
            ELSE IF ~StartsWith(names[i], prefix)
                 THEN Append(f[i - 1], <<names[i], prefix \o names[i]>>)
                 ELSE f[i - 1]
    IN f[Len(names)]

\* mutant: get_suffixed is applied before the endswith filter
add_suffix_raises_unfiltered(names, suffix) ==
    \E i \in 1..Len(names) : index_dot(names[i]) = 0

\* whether building the plan of add_suffix raises ValueError
add_suffix_raises(names, suffix) ==
    \E i \in 1..Len(names) : ~EndsWith(names[i], suffix) /\ index_dot(names[i]) = 0

add_suffix_plan(names, suffix) ==
    LET f[i \in 0..Len(names)] ==
            IF i = 0 THEN <<>>
            ELSE IF ~EndsWith(names[i], suffix)
                 THEN Append(f[i - 1], <<names[i], get_suffixed(names[i], suffix)>>)
                 ELSE f[i - 1]
    IN f[Len(names)]

\* mutant: enumerate(self.filenames, 1)
add_enum_plan_from_one(names, start, sep) ==
    [i \in 1..Len(names) |-> <<names[i], names[i] \o sep \o str(i + start)>>]

add_enum_plan(names, start, sep) ==
    [i \in 1..Len(names) |-> <<names[i], names[i] \o sep \o str((i - 1) + start)>>]

(***************************************************************************)
(* Inputs                                                                  *)
(***************************************************************************)
NoRule == [op |-> "none", a |-> <<>>, b |-> <<>>, start |-> 0]
NoPrev == [rule |-> NoRule, ans |-> "none", skipped |-> {}]

\* file names a directory may hold at construction
Names == { <<"a">>, <<"a", "a">>, <<"a", ".">>, <<".", "a">>,
           <<"a", "a", "a">>, <<"a", ".", "a">>, <<".", "a", "a">>,
           <<"a", "a", ".">> }

\* string arguments of the calls
Args == { <<>>, <<"a">>, <<".">>, <<"a", "a">>, <<".", "a">> }

Starts == {-1, 5, 9}
Seps == { <<>>, <<"_">> }

SmallNames == { <<"a">>, <<".", "a">>, <<"a", ".">>, <<"a", "a">> }
SmallArgs == { <<"a">>, <<".">> }

\* what the user may type at the prompt
Answers == {"y", "n", "Y", ""}

Dirs(names) ==
    {d \in SUBSET names : Cardinality(d) <= MaxFiles}

\* a directory holding `names`, each a distinct file
MakeDir(names) ==
    CHOOSE d \in [names -> 1..Cardinality(names)] :
        \A x, y \in names : x # y => d[x] # d[y]

\* the ammendments dicts over `args`: distinct keys, in insertion order
Ammendments(args) ==
    LET Pairs == args \X args
        Seqs == UNION {[1..n -> Pairs] : n \in 0..MaxRules}
    IN {m \in Seqs : \A i, j \in DOMAIN m : i # j => m[i][1] # m[j][1]}

(***************************************************************************)
(* Initial states                                                          *)
(***************************************************************************)
InitWith(names) ==
    /\ \E d \in Dirs(names) : fs = MakeDir(d)
    /\ files0 = fs
    /\ pc = "idle"
    /\ err = "none"
    /\ rule = NoRule
    /\ listing = <<>>
    /\ plan = <<>>
    /\ shown = FALSE
    /\ ans = "none"
    /\ idx = 1
    /\ outcomes = <<>>
    /\ before = fs
    /\ amm = <<>>
    /\ k = 0
    /\ made = {}
    /\ calls = 0
    /\ prev = NoPrev
    /\ ext = 0

Init == InitWith(SmallNames)
InitOnce == InitWith(Names)

(***************************************************************************)
(* rename_these and rename                                                 *)
(***************************************************************************)
\* rename_these up to its input(): the plan is printed when display is set,
\* and the prompt is shown whatever the plan holds
rename_these(r, names, files_to_change, display) ==
    /\ rule' = r
    /\ listing' = names
    /\ plan' = files_to_change
    /\ shown' = display
    /\ ans' = "none"
    /\ idx' = 1
    /\ outcomes' = <<>>
    /\ before' = fs
    /\ err' = "none"
    /\ pc' = "confirm"
    /\ UNCHANGED <<fs, files0, prev, ext>>

\* mutant: the answer is compared whatever its case
confirmed_any_case(answer) == answer \in {"y", "Y"}

\* ans != "y" discards the changes
confirmed(answer) == answer = "y"

\* input() returns; the loop starts unless the answer discards the plan
rename_these_input(answer) ==
    /\ pc = "confirm"
    /\ ans' = answer
    /\ pc' = IF confirmed(answer) /\ plan # <<>> THEN "exec" ELSE "done"
    /\ UNCHANGED <<fs, files0, err, rule, listing, plan, shown, idx, outcomes,
                   before, amm, k, made, calls, prev, ext>>

\* mutant: the destination is not checked
rename_result_unchecked(d, old_path, new_path) ==
    IF ~path_exists(d, old_path) THEN "SkippedMissingSource" ELSE "Applied"

\* what rename does with one entry
rename_result(d, old_path, new_path) ==
    IF ~path_exists(d, old_path) THEN "SkippedMissingSource"
    ELSE IF path_exists(d, new_path) THEN "SkippedTargetExists"
    ELSE "Applied"

\* os.rename, reached only with old_path in the directory and new_path not
os_rename(d, old_path, new_path) ==
    [n \in (DOMAIN d \ {old_path}) \cup {new_path} |->
        IF n = new_path THEN d[old_path] ELSE d[n]]

\* mutant: the loop ends at the first entry skipped
loop_after_break(res, i, n) == IF i = n \/ res # "Applied" THEN "done" ELSE "exec"

\* the loop goes on to the next entry whatever rename did with this one
loop_after(res, i, n) == IF i = n THEN "done" ELSE "exec"

\* one iteration of the for loop of rename_these: self.rename(old, new)
rename ==
    /\ pc = "exec"
    /\ LET old == plan[idx][1]
           new == plan[idx][2]
           res == rename_result(fs, old, new)
       IN /\ fs' = IF res = "Applied" THEN os_rename(fs, old, new) ELSE fs
          /\ outcomes' = Append(outcomes, [old |-> old, new |-> new, res |-> res])
          /\ made' = IF res = "Applied" THEN made \cup {new} ELSE made
          /\ pc' = loop_after(res, idx, Len(plan))
    /\ idx' = idx + 1
    /\ UNCHANGED <<files0, err, rule, listing, plan, shown, ans, before, amm, k,
                   calls, prev, ext>>

(***************************************************************************)
(* Main methods                                                            *)
(***************************************************************************)
Enter ==
    /\ pc = "idle"
    /\ calls < MaxCalls
    /\ calls' = calls + 1
    /\ made' = {}

replace(change_this, to_this) ==
    /\ Enter
    /\ \E names \in filenames :
          rename_these([op |-> "replace", a |-> change_this, b |-> to_this, start |-> 0],
                       names, replace_plan(names, change_this, to_this), TRUE)
    /\ UNCHANGED <<amm, k>>

add_prefix(prefix, display) ==
    /\ Enter
    /\ \E names \in filenames :
          rename_these([op |-> "add_prefix", a |-> prefix, b |-> <<>>, start |-> 0],
                       names, add_prefix_plan(names, prefix), display)
    /\ UNCHANGED <<amm, k>>

add_suffix(suffix, display) ==
    /\ Enter
    /\ \E names \in filenames :
          LET r == [op |-> "add_suffix", a |-> suffix, b |-> <<>>, start |-> 0]
          IN IF add_suffix_raises(names, suffix)
             THEN /\ rule' = r
                  /\ listing' = names
                  /\ plan' = <<>>
                  /\ shown' = FALSE
                  /\ ans' = "none"
                  /\ idx' = 1
                  /\ outcomes' = <<>>
                  /\ before' = fs
                  /\ err' = "ValueError"
                  /\ pc' = "done"
                  /\ UNCHANGED <<fs, files0, prev, ext>>
             ELSE rename_these(r, names, add_suffix_plan(names, suffix), display)
    /\ UNCHANGED <<amm, k>>

add_enum(start, sep, display) ==
    /\ Enter
    /\ \E names \in filenames :
          rename_these([op |-> "add_enum", a |-> sep, b |-> <<>>, start |-> start],
                       names, add_enum_plan(names, start, sep), display)
    /\ UNCHANGED <<amm, k>>

\* replace_these up to the input() of its first replace; with no ammendment
\* it returns at once
replace_these(ammendments) ==
    /\ Enter
    /\ amm' = ammendments
    /\ IF ammendments = <<>>
       THEN /\ k' = 0
            /\ rule' = [op |-> "replace_these", a |-> <<>>, b |-> <<>>, start |-> 0]
            /\ listing' = <<>>
            /\ plan' = <<>>
            /\ shown' = FALSE
            /\ ans' = "none"
            /\ idx' = 1
            /\ outcomes' = <<>>
            /\ before' = fs
            /\ err' = "none"
            /\ pc' = "done"
            /\ UNCHANGED <<fs, files0, prev, ext>>
       ELSE /\ k' = 1
            /\ \E names \in filenames :
                  rename_these([op |-> "replace", a |-> ammendments[1][1],
                                b |-> ammendments[1][2], start |-> 0],
                               names,
                               replace_plan(names, ammendments[1][1], ammendments[1][2]),
                               TRUE)

\* the for loop of replace_these: the next replace, up to its input()
replace_these_next ==
    /\ pc = "done"
    /\ k < Len(amm)
    /\ k' = k + 1
    /\ \E names \in filenames :
          rename_these([op |-> "replace", a |-> amm[k + 1][1], b |-> amm[k + 1][2],
                        start |-> 0],
                       names, replace_plan(names, amm[k + 1][1], amm[k + 1][2]), TRUE)
    /\ UNCHANGED <<amm, made, calls>>

\* the call returns (or its exception reaches the caller)
Return ==
    /\ pc = "done"
    /\ k >= Len(amm)
    /\ pc' = "idle"
    /\ prev' = [rule |-> rule, ans |-> ans,
                 skipped |-> {outcomes[i].old : i \in {j \in DOMAIN outcomes :
                                                         outcomes[j].res # "Applied"}}]
    /\ rule' = NoRule
    /\ listing' = <<>>
    /\ plan' = <<>>
    /\ shown' = FALSE
    /\ ans' = "none"
    /\ idx' = 1
    /\ outcomes' = <<>>
    /\ before' = fs
    /\ err' = "none"
    /\ amm' = <<>>
    /\ k' = 0
    /\ made' = {}
    /\ UNCHANGED <<fs, files0, calls, ext>>

(***************************************************************************)
(* Another process changing the directory                                  *)
(***************************************************************************)
PlanNames == {plan[i][1] : i \in DOMAIN plan} \cup {plan[i][2] : i \in DOMAIN plan}

FreshId == Cardinality(DOMAIN files0) + ext + 1

ExtCreate(name) ==
    /\ pc \in {"confirm", "exec"}
    /\ ext < MaxExt
    /\ ~path_exists(fs, name)
    /\ fs' = [n \in DOMAIN fs \cup {name} |-> IF n = name THEN FreshId ELSE fs[n]]
    /\ ext' = ext + 1
    /\ UNCHANGED <<files0, pc, err, rule, listing, plan, shown, ans, idx, outcomes,
                   before, amm, k, made, calls, prev>>

ExtDelete(name) ==
    /\ pc \in {"confirm", "exec"}
    /\ ext < MaxExt
    /\ name \in DOMAIN fs
    /\ fs' = [n \in DOMAIN fs \ {name} |-> fs[n]]
    /\ ext' = ext + 1
    /\ UNCHANGED <<files0, pc, err, rule, listing, plan, shown, ans, idx, outcomes,
                   before, amm, k, made, calls, prev>>

(***************************************************************************)
(* Specifications                                                          *)
(***************************************************************************)
\* any sequence of calls on a small directory, nothing else touching it
Next ==
    \/ \E x, y \in SmallArgs : replace(x, y)
    \/ \E x \in SmallArgs : add_prefix(x, TRUE)
    \/ \E x \in SmallArgs : add_suffix(x, TRUE)
    \/ add_enum(1, <<"_">>, TRUE)
    \/ \E m \in Ammendments(SmallArgs) : replace_these(m)
    \/ replace_these_next
    \/ \E x \in {"y", "n"} : rename_these_input(x)
    \/ rename
    \/ Return

Spec == Init /\ [][Next]_vars

\* one call on a fresh directory, nothing else touching it
NextOnce ==
    \/ \E x, y \in Args : replace(x, y)
    \/ \E x \in Args, d \in BOOLEAN : add_prefix(x, d)
    \/ \E x \in Args, d \in BOOLEAN : add_suffix(x, d)
    \/ \E s \in Starts, x \in Seps, d \in BOOLEAN : add_enum(s, x, d)
    \/ \E x \in Answers : rename_these_input(x)
    \/ rename

SpecOnce == InitOnce /\ [][NextOnce]_vars

\* one call on a small directory that another process changes meanwhile
NextEnv ==
    \/ \E x, y \in SmallArgs : replace(x, y)
    \/ \E x \in SmallArgs : add_prefix(x, TRUE)
    \/ add_enum(1, <<"_">>, TRUE)
    \/ \E x \in {"y", "n"} : rename_these_input(x)
    \/ rename
    \/ \E n \in PlanNames : ExtCreate(n)
    \/ \E n \in DOMAIN fs : ExtDelete(n)

SpecEnv == Init /\ [][NextEnv]_vars

(***************************************************************************)
(* Properties                                                              *)
(***************************************************************************)
Keys(p) == {p[i][1] : i \in DOMAIN p}
NoDot(fname) == "." \notin Range(fname)
IsReplace == rule.op = "replace"

\* the rename step of entry idx is being taken
RenameStep == pc = "exec" /\ idx' = idx + 1

\* C1 (as stated): an entry whose destination exists when it is processed is
\* skipped with SkippedTargetExists and the directory is left as it is.
C1_Original ==
    [][(RenameStep /\ path_exists(fs, plan[idx][2]))
        => (fs' = fs /\ outcomes'[idx].res = "SkippedTargetExists")]_vars

\* C1 (amended): an entry whose destination exists when it is processed is
\* never renamed and the directory is left as it is; it is reported
\* SkippedTargetExists when its source exists, SkippedMissingSource when its
\* source is missing as well.
C1_Amended ==
    [][(RenameStep /\ path_exists(fs, plan[idx][2]))
        => (/\ fs' = fs
            /\ outcomes'[idx].res = IF path_exists(fs, plan[idx][1])
                                    THEN "SkippedTargetExists"
                                    ELSE "SkippedMissingSource")]_vars

\* a destination created by another process after planning made the entry skip
C1_Witness ==
    \E i \in DOMAIN outcomes :
        /\ outcomes[i].res = "SkippedTargetExists"
        /\ outcomes[i].new \notin DOMAIN before
        /\ outcomes[i].new \in DOMAIN fs
        /\ outcomes[i].old \in DOMAIN fs

\* C2: when the answer is anything but "y", rename_these renames nothing: the
\* directory after the call is the directory before it.
C2_DeclineChangesNothing ==
    (pc = "done" /\ ans \notin {"none", "y"}) => (fs = before /\ outcomes = <<>>)

C2_Witness ==
    pc = "done" /\ ans = "Y" /\ plan # <<>> /\ ~shown /\ rule.op = "add_prefix"

\* the second of two confirmed add_prefix(p) cycles in a row has built its plan
SecondPrefixCycle ==
    /\ pc = "confirm"
    /\ rule.op = "add_prefix"
    /\ prev.rule = rule
    /\ prev.ans = "y"

\* C3 (as stated): the plan of the second of two add_prefix(p) cycles is empty.
C3_Original == SecondPrefixCycle => plan = <<>>

\* C3 (amended): the plan of the second of two add_prefix(p) cycles holds
\* exactly the names the first cycle skipped because the prefixed name already
\* existed, each still with an existing destination (so the second cycle
\* renames nothing); it is empty when the first cycle skipped nothing.
C3_Amended ==
    SecondPrefixCycle =>
        /\ Keys(plan) = prev.skipped
        /\ \A i \in DOMAIN plan : path_exists(fs, plan[i][2])

C3_Witness == SecondPrefixCycle /\ plan # <<>> /\ rule.a # <<>>

\* C4 (as stated): no plan handed to rename_these maps a name to itself.
C4_NoNoOpEntry == \A i \in DOMAIN plan : plan[i][1] # plan[i][2]

\* C5 (as stated): the new name of a Replace(from, to) entry holds no
\* occurrence of `from` if and only if `to` holds none.
C5_Original ==
    IsReplace =>
        \A i \in DOMAIN plan :
            (~Contains(plan[i][2], rule.a)) <=> (~Contains(rule.b, rule.a))

\* C5 (amended): the new name of a Replace(from, to) entry holds no occurrence
\* of `from` only if `to` holds none; the converse holds when `from` is a
\* single character (a longer `from` can reappear across the edge of a
\* replacement).
C5_Amended ==
    IsReplace =>
        \A i \in DOMAIN plan :
            /\ Contains(rule.b, rule.a) => Contains(plan[i][2], rule.a)
            /\ (Len(rule.a) = 1 /\ ~Contains(rule.b, rule.a))
                   => ~Contains(plan[i][2], rule.a)

C5_Witness ==
    /\ IsReplace
    /\ \E i \in DOMAIN plan :
          Len(rule.a) = 1 /\ ~Contains(rule.b, rule.a) /\ rule.b # <<>>
          /\ Len(plan[i][2]) > Len(plan[i][1])

C7_SuffixNoExtension ==
    (rule.op = "add_suffix") =>
        /\ (err = "ValueError") <=>
              (\E f \in DOMAIN before : ~EndsWith(f, rule.a) /\ NoDot(f))
        /\ (err = "ValueError") =>
              (pc = "done" /\ fs = before /\ ans = "none" /\ ~shown
               /\ outcomes = <<>>)

\* it raised although a name without "." that ends with the suffix is there
C7_Witness ==
    /\ rule.op = "add_suffix"
    /\ err = "ValueError"
    /\ \E f \in DOMAIN fs : EndsWith(f, rule.a) /\ NoDot(f)

\* the value of a decimal numeral, by Horner's rule
RECURSIVE ParseNat(_)
ParseNat(s) ==
    IF s = <<>> THEN 0
    ELSE 10 * ParseNat(SubSeq(s, 1, Len(s) - 1))
         + (CHOOSE d \in 0..9 : Digit(d) = s[Len(s)])

ParseInt(s) == IF Head(s) = "-" THEN 0 - ParseNat(Tail(s)) ELSE ParseNat(s)

\* C8: the plan of Enumerate has one entry per name of the listing, in the
\* listing's order, and maps the i-th name (from 0) to name + sep + the decimal
\* numeral of start + i.
C8_Enumerate ==
    (rule.op = "add_enum") =>
        /\ Len(plan) = Len(listing)
        /\ Range(listing) = DOMAIN before
        /\ \A i \in DOMAIN plan :
              LET old == plan[i][1]
                  new == plan[i][2]
                  rest == SubSeq(new, Len(old) + 1, Len(new))
                  num == SubSeq(rest, Len(rule.a) + 1, Len(rest))
              IN /\ old = listing[i]
                 /\ StartsWith(new, old)
                 /\ StartsWith(rest, rule.a)
                 /\ num # <<>>
                 /\ ParseInt(num) = rule.start + (i - 1)

C8_Witness ==
    /\ rule.op = "add_enum"
    /\ rule.start = 9
    /\ Len(plan) = 2
    /\ plan[2][2] = plan[2][1] \o <<"_", "1", "0">>

\* C9: replace_these runs its rules in the given order, one plan + prompt +
\* loop per rule, and builds each plan from the directory as it is then.
C9_ReplaceTheseFresh ==
    (amm # <<>> /\ pc # "idle") =>
        /\ k \in 1..Len(amm)
        /\ rule = [op |-> "replace", a |-> amm[k][1], b |-> amm[k][2], start |-> 0]
        /\ pc = "confirm" =>
              /\ ans = "none" /\ outcomes = <<>>
              /\ Range(listing) = DOMAIN fs
              /\ Keys(plan) = {f \in DOMAIN fs : Contains(f, amm[k][1])}

\* the second rule is about to rename a name the first rule made
C9_Witness ==
    /\ pc = "confirm"
    /\ k = 2
    /\ \E i \in DOMAIN plan : plan[i][1] \in made /\ plan[i][1] \notin DOMAIN files0

====
